---- MODULE Spec2Model ----
(***************************************************************************)
(* Model of BybitManager.place_market_order_spot_to_usdt and the helpers   *)
(* it is built from (src/bybit_manager.py), together with the payload      *)
(* builder ApiClient.place_order (src/api_client.py).                      *)
(*                                                                         *)
(* Python floats are IEEE-754 binary64.  A non-negative float is modelled  *)
(* exactly: it is the natural number (value * 2^FracBits), kept as a       *)
(* little-endian sequence of limbs in base 2^LimbBits, and every           *)
(* arithmetic step rounds its exact result to 53 significant bits, ties to *)
(* even, as the hardware does.                                             *)
(***************************************************************************)
EXTENDS Integers, Sequences, FiniteSets, TLC

-----------------------------------------------------------------------------
(* Natural numbers of arbitrary size: little-endian limbs, no high zero.   *)

LimbBits == 15
LimbBase == 2^LimbBits

Max(m, n) == IF m >= n THEN m ELSE n

(* index of the highest non-zero limb, 0 when there is none *)
TopIndex(a) ==
    IF \A i \in 1..Len(a) : a[i] = 0 THEN 0
    ELSE CHOOSE i \in 1..Len(a) :
            a[i] # 0 /\ \A j \in (i + 1)..Len(a) : a[j] = 0

Trim(a) == SubSeq(a, 1, TopIndex(a))

Zeros(k) == [i \in 1..k |-> 0]

(* limb i of a, 0 outside a *)
Limb(a, i) == IF 1 <= i /\ i <= Len(a) THEN a[i] ELSE 0

RECURSIVE NatToBig(_)
NatToBig(n) ==
    IF n = 0 THEN <<>> ELSE <<n % LimbBase>> \o NatToBig(n \div LimbBase)

RECURSIVE BigToNat(_)
BigToNat(a) ==
    IF a = <<>> THEN 0 ELSE a[1] + LimbBase * BigToNat(Tail(a))

(* s holds limb-wise sums below 2 * LimbBase - 1.  A carry enters limb i   *)
(* when some limb below it overflows and every limb between is full.       *)
CarryInto(s, i) ==
    \E j \in 1..(i - 1) :
        s[j] >= LimbBase /\ \A k \in (j + 1)..(i - 1) : s[k] = LimbBase - 1

Carried(s) ==
    Trim([i \in 1..(Len(s) + 1) |->
            (Limb(s, i) + (IF CarryInto(s, i) THEN 1 ELSE 0)) % LimbBase])

BigAdd(a, b) ==
    IF a = <<>> THEN b
    ELSE IF b = <<>> THEN a
    ELSE Carried([i \in 1..Max(Len(a), Len(b)) |-> Limb(a, i) + Limb(b, i)])

(* d holds limb-wise differences.  A borrow enters limb i when some limb   *)
(* below it is negative and every limb between is zero.                    *)
BorrowInto(d, i) ==
    \E j \in 1..(i - 1) : d[j] < 0 /\ \A k \in (j + 1)..(i - 1) : d[k] = 0

Borrowed(d) ==
    Trim([i \in 1..Len(d) |->
            (d[i] - (IF BorrowInto(d, i) THEN 1 ELSE 0)) % LimbBase])

(* a - b for a >= b *)
BigSub(a, b) ==
    IF a = <<>> \/ b = <<>> THEN a
    ELSE Borrowed([i \in 1..Len(a) |-> a[i] - Limb(b, i)])

(* -1, 0, 1 as a < b, a = b, a > b *)
BigCmp(a, b) ==
    IF Len(a) > Len(b) THEN 1
    ELSE IF Len(a) < Len(b) THEN -1
    ELSE IF a = b THEN 0
    ELSE IF \E i \in 1..Len(a) :
               a[i] > b[i] /\ \A j \in (i + 1)..Len(a) : a[j] = b[j]
    THEN 1 ELSE -1

(* a * d for 0 <= d <= LimbBase: the low half of each limb product meets   *)
(* the high half of the product below it                                   *)
MulSmall(a, d) ==
    IF a = <<>> THEN <<>>
    ELSE Carried([i \in 1..(Len(a) + 1) |->
                    ((Limb(a, i) * d) % LimbBase)
                    + ((Limb(a, i - 1) * d) \div LimbBase)])

(* a * LimbBase^k *)
ShiftLimbs(a, k) == IF a = <<>> THEN a ELSE Zeros(k) \o a

(* sum over j in lo..hi of a * b[j] * LimbBase^(j-1) *)
RECURSIVE MulRange(_, _, _, _)
MulRange(a, b, lo, hi) ==
    IF lo = hi THEN ShiftLimbs(MulSmall(a, b[lo]), lo - 1)
    ELSE BigAdd(MulRange(a, b, lo, (lo + hi) \div 2),
                MulRange(a, b, (lo + hi) \div 2 + 1, hi))

BigMul(a, b) ==
    IF a = <<>> \/ b = <<>> THEN <<>> ELSE MulRange(a, b, 1, Len(b))

DivLeaf(cur, d) == [q |-> <<cur \div d>>, r |-> cur % d]
DivJoin(l, h) == [q |-> l.q \o h.q, r |-> l.r]

(* the long division of limbs lo..hi by d, from limb hi down, entered with *)
(* remainder r; the index range is halved, the remainder running from the  *)
(* high half into the low half                                             *)
RECURSIVE DivModRange(_, _, _, _, _), DivModLow(_, _, _, _, _)
DivModRange(a, d, lo, hi, r) ==
    IF lo = hi THEN DivLeaf(r * LimbBase + a[lo], d)
    ELSE DivModLow(a, d, lo, (lo + hi) \div 2,
                   DivModRange(a, d, (lo + hi) \div 2 + 1, hi, r))
DivModLow(a, d, lo, hi, h) ==
    IF h.r = 0 THEN DivJoin(DivModRange(a, d, lo, hi, 0), h)
    ELSE DivJoin(DivModRange(a, d, lo, hi, h.r), h)

TrimQuotient(x) == [q |-> Trim(x.q), r |-> x.r]

(* quotient and remainder of a by d, for 1 <= d <= LimbBase *)
DivModSmall(a, d) ==
    IF a = <<>> THEN [q |-> <<>>, r |-> 0]
    ELSE TrimQuotient(DivModRange(a, d, 1, Len(a), 0))

(* a * 10^n, four decimal digits at a time *)
RECURSIVE MulPow10(_, _)
MulPow10(a, n) ==
    IF a = <<>> \/ n = 0 THEN a
    ELSE IF n <= 4 THEN MulSmall(a, 10^n)
    ELSE MulPow10(MulSmall(a, 10^4), n - 4)

Inexact(x) == [q |-> x.q, inexact |-> x.r # 0]
OrInexact(y, dropped) == [q |-> y.q, inexact |-> dropped \/ y.inexact]

(* floor(a / 10^n), with inexact = "a remainder was dropped" *)
RECURSIVE DivPow10(_, _), DivPow10More(_, _)
DivPow10(a, n) ==
    IF a = <<>> \/ n = 0 THEN [q |-> a, inexact |-> FALSE]
    ELSE IF n <= 4 THEN Inexact(DivModSmall(a, 10^n))
    ELSE DivPow10More(DivModSmall(a, 10^4), n - 4)
DivPow10More(x, n) ==
    IF x.q = <<>> THEN Inexact(x)
    ELSE OrInexact(DivPow10(x.q, n), x.r # 0)

SmallBitLen(n) ==
    CHOOSE k \in 0..LimbBits : 2^k > n /\ (k = 0 \/ 2^(k - 1) <= n)

BitLen(a) ==
    IF a = <<>> THEN 0
    ELSE LimbBits * (Len(a) - 1) + SmallBitLen(a[Len(a)])

IsOdd(a) == a # <<>> /\ a[1] % 2 = 1

(* s = LimbBits * WholeLimbs(s) + OddBits(s) *)
WholeLimbs(s) == s \div LimbBits
OddBits(s) == s % LimbBits

(* the low k bits of limb x, and the bits above them *)
LowBits(x, k) == x % (2^k)
HighBits(x, k) == x \div (2^k)

(* floor(a / 2^s), with inexact = "a one bit was shifted out" *)
ShiftRight(a, s) ==
    IF a = <<>> THEN [q |-> a, inexact |-> FALSE]
    ELSE [q |-> Trim([i \in 1..(Len(a) - WholeLimbs(s)) |->
                 HighBits(a[i + WholeLimbs(s)], OddBits(s))
                 + LowBits(Limb(a, i + WholeLimbs(s) + 1), OddBits(s))
                   * 2^(LimbBits - OddBits(s))]),
          inexact |->
              \/ \E i \in 1..WholeLimbs(s) : Limb(a, i) # 0
              \/ LowBits(Limb(a, WholeLimbs(s) + 1), OddBits(s)) # 0]

(* a * 2^s *)
ShiftLeft(a, s) ==
    IF a = <<>> THEN a
    ELSE ShiftLimbs(
             Trim([i \in 1..(Len(a) + 1) |->
                 LowBits(Limb(a, i), LimbBits - OddBits(s)) * 2^OddBits(s)
                 + HighBits(Limb(a, i - 1), LimbBits - OddBits(s))]),
             WholeLimbs(s))

-----------------------------------------------------------------------------
(* Python float: IEEE-754 binary64, non-negative values only.  The float x *)
(* is the natural number x * 2^FracBits; values below 2^(MantBits-FracBits)*)
(* that are not multiples of 2^-FracBits are outside the modelled range.   *)

FracBits == 6 * LimbBits
MantBits == 53

OutOfRange == <<-1>>

FloatZero == <<>>
FloatOne  == ShiftLeft(<<1>>, FracBits)

(* h div 2 *)
Half(h) == ShiftRight(h, 1).q

(* h is twice the value wanted, its lowest bit the round bit: Half(h), or  *)
(* Half(h) + 1 when the dropped part is more than half a unit, or exactly  *)
(* half (round bit set, nothing below it) and Half(h) is odd               *)
RoundHalfEven(h, below) ==
    IF h = <<>> THEN h
    ELSE IF IsOdd(h) /\ (below \/ IsOdd(Half(h)))
    THEN BigAdd(Half(h), <<1>>)
    ELSE Half(h)

(* h is the value shifted right to one bit more than the mantissa *)
RoundMantissa(h, sticky, s) ==
    ShiftLeft(RoundHalfEven(h.q, sticky \/ h.inexact), s)

(* The binary64 nearest to (a + f) * 2^-FracBits where 0 <= f < 1 and      *)
(* sticky = (f # 0): round to MantBits significant bits, ties to even.     *)
RoundToDouble(a, sticky) ==
    IF a = OutOfRange THEN OutOfRange
    ELSE IF BitLen(a) <= MantBits
    THEN (IF sticky THEN OutOfRange ELSE a)
    ELSE RoundMantissa(ShiftRight(a, BitLen(a) - MantBits - 1), sticky,
                       BitLen(a) - MantBits)

RoundQuotient(x) == RoundToDouble(x.q, x.inexact)

(* float(k) for an int k given as a natural number of arbitrary size *)
IntToFloat(k) ==
    IF k = OutOfRange THEN OutOfRange
    ELSE RoundToDouble(ShiftLeft(k, FracBits), FALSE)

(* k / 10^n for ints k and 10^n (true division, correctly rounded) *)
IntDivPow10(k, n) ==
    IF k = OutOfRange THEN OutOfRange
    ELSE RoundQuotient(DivPow10(ShiftLeft(k, FracBits), n))

(* x * y *)
FloatMul(x, y) ==
    IF x = OutOfRange \/ y = OutOfRange THEN OutOfRange
    ELSE RoundQuotient(ShiftRight(BigMul(x, y), FracBits))

(* x * 10^n, the int 10^n being converted to float exactly *)
FloatMulPow10(x, n) ==
    IF x = OutOfRange THEN OutOfRange
    ELSE RoundToDouble(MulPow10(x, n), FALSE)

(* x / 10^n *)
FloatDivPow10(x, n) ==
    IF x = OutOfRange THEN OutOfRange ELSE RoundQuotient(DivPow10(x, n))

(* x + y *)
FloatAdd(x, y) ==
    IF x = OutOfRange \/ y = OutOfRange THEN OutOfRange
    ELSE RoundToDouble(BigAdd(x, y), FALSE)

(* x - y for x >= y; a negative difference is outside the modelled range *)
FloatSub(x, y) ==
    IF x = OutOfRange \/ y = OutOfRange THEN OutOfRange
    ELSE IF BigCmp(x, y) < 0 THEN OutOfRange
    ELSE RoundToDouble(BigSub(x, y), FALSE)

(* math.floor(x): an int *)
Floor(x) == IF x = OutOfRange THEN OutOfRange ELSE ShiftRight(x, FracBits).q

(* h is x * 10^ndigits shifted right to one bit below the units *)
RoundDecimal(h, ndigits) ==
    IntDivPow10(RoundHalfEven(h.q, h.inexact), ndigits)

(* round(x, ndigits) of a float: the exact binary value is rounded to      *)
(* ndigits decimals, ties to even, and the decimal is converted back to    *)
(* the nearest float.                                                      *)
PyRound(x, ndigits) ==
    IF x = OutOfRange THEN OutOfRange
    ELSE RoundDecimal(ShiftRight(MulPow10(x, ndigits), FracBits - 1), ndigits)

-----------------------------------------------------------------------------
(* Python str: a sequence of one-character strings.                        *)

Digits == <<"0", "1", "2", "3", "4", "5", "6", "7", "8", "9">>

IsDigit(c) == \E i \in 1..10 : Digits[i] = c

DigitValue(c) == (CHOOSE i \in 1..10 : Digits[i] = c) - 1

(* index of the first occurrence of c in s, 0 when there is none *)
Find(s, c) ==
    IF \E i \in 1..Len(s) : s[i] = c
    THEN CHOOSE i \in 1..Len(s) : s[i] = c /\ \A j \in 1..(i - 1) : s[j] # c
    ELSE 0

(* s.split(sep) *)
RECURSIVE Split(_, _), SplitAt(_, _, _)
Split(s, sep) == SplitAt(s, sep, Find(s, sep))
SplitAt(s, sep, i) ==
    IF i = 0 THEN <<s>>
    ELSE <<SubSeq(s, 1, i - 1)>> \o Split(SubSeq(s, i + 1, Len(s)), sep)

(* the int written by the digits s[lo..hi] *)
RECURSIVE DigitsRange(_, _, _)
DigitsRange(s, lo, hi) ==
    IF lo = hi THEN NatToBig(DigitValue(s[lo]))
    ELSE BigAdd(MulPow10(DigitsRange(s, lo, (lo + hi) \div 2),
                         hi - (lo + hi) \div 2),
                DigitsRange(s, (lo + hi) \div 2 + 1, hi))

DigitsToBig(s) == IF s = <<>> THEN <<>> ELSE DigitsRange(s, 1, Len(s))

(* the strings float() accepts here: digits with at most one point and at  *)
(* least one digit; anything else raises ValueError                        *)
IsFloatLiteral(s) ==
    /\ \A i \in 1..Len(s) : IsDigit(s[i]) \/ s[i] = "."
    /\ Cardinality({i \in 1..Len(s) : s[i] = "."}) <= 1
    /\ \E i \in 1..Len(s) : IsDigit(s[i])

(* the literal s with its point at index i (0: no point) *)
ParseAt(s, i) ==
    IF i = 0 THEN IntDivPow10(DigitsToBig(s), 0)
    ELSE IntDivPow10(DigitsToBig(SubSeq(s, 1, i - 1)
                                 \o SubSeq(s, i + 1, Len(s))), Len(s) - i)

(* float(s) for a float literal s: the binary64 nearest to the decimal *)
ParseFloat(s) == ParseAt(s, Find(s, "."))

-----------------------------------------------------------------------------
(* Python values that travel through payloads and optional parameters.     *)

None == [none |-> TRUE]
PyFloat(x) == [float |-> x]
PyStr(x) == [str |-> x]
PyInt(i) == [int |-> i]

IsFloat(v) == DOMAIN v = {"float"}

(* f"{coin}USDT": the two parts of the symbol, kept side by side *)
Symbol(coin) == [fstr |-> <<coin, "USDT">>]

(* bool(v): None, 0, 0.0 and "" are false *)
Truthy(v) ==
    IF v = None THEN FALSE
    ELSE IF DOMAIN v = {"float"} THEN v.float # FloatZero
    ELSE IF DOMAIN v = {"int"} THEN v.int # 0
    ELSE IF DOMAIN v = {"str"} THEN v.str # ""
    ELSE IF DOMAIN v = {"fstr"} THEN \E i \in 1..Len(v.fstr) : v.fstr[i] # ""
    ELSE TRUE

(* the outcome of evaluating an expression: its value, or the exception *)
Ok(v) == [ok |-> TRUE, v |-> v]
Raised(exc) == [ok |-> FALSE, exc |-> exc]

(* types_1.py: the wire strings of the enum members used *)
Category_SPOT == "spot"
OrderType_MARKET == "Market"
OrderType_LIMIT == "Limit"
Side_BUY == "Buy"
Side_SELL == "Sell"
TimeInForce_GTC == "GTC"
TimeInForce_IOC == "IOC"
AccountType_UNIFIED == "UNIFIED"
OrderFilter_ORDER == "Order"
OrderFilter_STOP_ORDER == "StopOrder"

-----------------------------------------------------------------------------
(* ApiClient: the payload builders.                                        *)

(* a variant of Opt that sends an absent field as a null *)
OptOrNull(cond, key, value) == IF cond THEN key :> value ELSE key :> None

Opt(cond, key, value) == IF cond THEN key :> value ELSE <<>>

(* the optional parameters of place_order at their defaults *)
PlaceOrderDefaults ==
    [price |-> None, time_in_force |-> TimeInForce_IOC,
     order_link_id |-> None, is_leverage |-> 0,
     order_filter |-> OrderFilter_ORDER, market_unit |-> None,
     trigger_price |-> None, trigger_direction |-> None,
     trigger_by |-> None, take_profit |-> None, stop_loss |-> None,
     tp_trigger_by |-> None, sl_trigger_by |-> None, reduce_only |-> None,
     close_on_trigger |-> None, tp_sl_mode |-> None,
     tp_limit_price |-> None, sl_limit_price |-> None,
     tp_order_type |-> None, sl_order_type |-> None]

(* order_data as ApiClient.place_order builds it; a is the record of all   *)
(* parameters                                                              *)
place_order(a) ==
    [category |-> PyStr(a.category), symbol |-> a.symbol,
     side |-> PyStr(a.side), orderType |-> PyStr(a.order_type), qty |-> a.qty,
     timeInForce |-> PyStr(a.time_in_force), isLeverage |-> PyInt(a.is_leverage),
     orderFilter |-> PyStr(a.order_filter)]
    @@ Opt(a.price # None, "price", a.price)
    @@ Opt(Truthy(a.order_link_id), "orderLinkId", a.order_link_id)
    @@ Opt(Truthy(a.market_unit), "marketUnit", a.market_unit)
    @@ Opt(Truthy(a.trigger_price), "triggerPrice", a.trigger_price)
    @@ Opt(Truthy(a.trigger_direction), "triggerDirection",
           a.trigger_direction.value)
    @@ Opt(Truthy(a.trigger_by), "triggerBy", a.trigger_by.value)
    @@ Opt(Truthy(a.take_profit), "takeProfit", a.take_profit)
    @@ Opt(Truthy(a.stop_loss), "stopLoss", a.stop_loss)
    @@ Opt(Truthy(a.tp_trigger_by), "tpTriggerBy", a.tp_trigger_by.value)
    @@ Opt(Truthy(a.sl_trigger_by), "slTriggerBy", a.sl_trigger_by.value)
    @@ Opt(a.reduce_only # None, "reduceOnly", a.reduce_only)
    @@ Opt(a.close_on_trigger # None, "closeOnTrigger", a.close_on_trigger)
    @@ Opt(Truthy(a.tp_sl_mode), "tpslMode", a.tp_sl_mode.value)
    @@ Opt(Truthy(a.tp_limit_price), "tpLimitPrice", a.tp_limit_price)
    @@ Opt(Truthy(a.sl_limit_price), "slLimitPrice", a.sl_limit_price)
    @@ Opt(Truthy(a.tp_order_type), "tpOrderType", a.tp_order_type.value)
    @@ Opt(Truthy(a.sl_order_type), "slOrderType", a.sl_order_type.value)

(* params of ApiClient.get_wallet_balance *)
get_wallet_balance(account_type, coin) ==
    [accountType |-> PyStr(account_type)]
    @@ Opt(Truthy(PyStr(coin)), "coin", PyStr(coin))

(* params of ApiClient.get_order_by_id *)
get_order_by_id(category, order_id) ==
    [category |-> PyStr(category), orderId |-> PyStr(order_id)]

(* params of ApiClient.get_instruments_info called with category, symbol *)
get_instruments_info(category, symbol) ==
    [category |-> PyStr(category)]
    @@ Opt(Truthy(symbol), "symbol", symbol)

-----------------------------------------------------------------------------
(* BybitManager: the pure parts of the helpers.                            *)

(* _count_decimal_places(value) *)
_count_decimal_places(value) ==
    IF \E i \in 1..Len(value) : value[i] = "."
    THEN Len(Split(value, ".")[2])
    ELSE 0

(* _round_to_precision(value, precision) *)
_round_to_precision(value, precision) ==
    IntDivPow10(Floor(FloatMulPow10(value, precision)), precision)

(* float(s): the value or ValueError *)
float(s) == IF IsFloatLiteral(s) THEN Ok(ParseFloat(s)) ELSE Raised("ValueError")

(* get_balance on the outcome r of get_wallet_balance:                     *)
(* float(balance['result']['list'][0]['coin'][0]['availableToWithdraw'])   *)
get_balance(r) ==
    IF ~r.ok THEN r
    ELSE IF r.v.list = <<>> THEN Raised("IndexError")
    ELSE IF r.v.list[1].coin = <<>> THEN Raised("IndexError")
    ELSE float(r.v.list[1].coin[1].availableToWithdraw)

(* a variant of _get_avg_price that reads a missing average price as 0.0   *)
_get_avg_price_or_zero(r) ==
    IF ~r.ok THEN r
    ELSE IF r.v.list = <<>> THEN Ok(FloatZero)
    ELSE IF "avgPrice" \notin DOMAIN r.v.list[1] THEN Ok(FloatZero)
    ELSE IF r.v.list[1].avgPrice = <<>> THEN Ok(FloatZero)
    ELSE float(r.v.list[1].avgPrice)

(* _get_avg_price on the outcome r of get_order_by_id *)
_get_avg_price(r) ==
    IF ~r.ok THEN r
    ELSE IF r.v.list = <<>> THEN Raised("IndexError")
    ELSE IF "avgPrice" \notin DOMAIN r.v.list[1] THEN Raised("KeyError")
    ELSE float(r.v.list[1].avgPrice)

(* a variant of _get_qty_precision that takes precision 0 when no symbol   *)
(* matches                                                                 *)
_get_qty_precision_or_zero(r) ==
    IF ~r.ok THEN r
    ELSE IF r.v.list = <<>> THEN Ok(0)
    ELSE Ok(_count_decimal_places(r.v.list[1].lotSizeFilter.basePrecision))

(* _get_qty_precision on the outcome r of get_instruments_info *)
_get_qty_precision(r) ==
    IF ~r.ok THEN r
    ELSE IF r.v.list = <<>> THEN Raised("IndexError")
    ELSE Ok(_count_decimal_places(r.v.list[1].lotSizeFilter.basePrecision))

(* a variant of _get_price_precision that reads the lot size filter *)
_get_price_precision_from_lot_size(r) ==
    IF ~r.ok THEN r
    ELSE IF r.v.list = <<>> THEN Raised("IndexError")
    ELSE Ok(_count_decimal_places(r.v.list[1].lotSizeFilter.basePrecision))

(* _get_price_precision on the outcome r of get_instruments_info *)
_get_price_precision(r) ==
    IF ~r.ok THEN r
    ELSE IF r.v.list = <<>> THEN Raised("IndexError")
    ELSE Ok(_count_decimal_places(r.v.list[1].priceFilter.tickSize))

(* a variant of _execute_market_order whose quantity is in base currency *)
_execute_market_order_in_base_coin(symbol, side, qty) ==
    [PlaceOrderDefaults EXCEPT !.market_unit = PyStr("baseCoin")]
    @@ [category |-> Category_SPOT, symbol |-> symbol, side |-> side,
        order_type |-> OrderType_MARKET, qty |-> qty]

(* the parameters _execute_market_order passes to place_order *)
_execute_market_order(symbol, side, qty) ==
    [PlaceOrderDefaults EXCEPT !.market_unit = PyStr("quoteCoin")]
    @@ [category |-> Category_SPOT, symbol |-> symbol, side |-> side,
        order_type |-> OrderType_MARKET, qty |-> qty]

(* the parameters _place_limit_order passes to place_order *)
_place_limit_order(symbol, qty, price, side) ==
    [PlaceOrderDefaults EXCEPT !.price = price,
                               !.time_in_force = TimeInForce_GTC]
    @@ [category |-> Category_SPOT, symbol |-> symbol, side |-> side,
        order_type |-> OrderType_LIMIT, qty |-> qty]

(* the parameters _place_stop_loss passes to place_order *)
_place_stop_loss(symbol, qty, trigger_price) ==
    [PlaceOrderDefaults EXCEPT !.trigger_price = trigger_price,
                               !.order_filter = OrderFilter_STOP_ORDER]
    @@ [category |-> Category_SPOT, symbol |-> symbol, side |-> Side_SELL,
        order_type |-> OrderType_MARKET, qty |-> qty]

-----------------------------------------------------------------------------
(* The exchange gateway (pybit session): what its calls may answer.        *)

UsdtBalances == {<<"1", "0", "0", "0">>, <<"4", "5">>}

CoinBalances ==
    {<<"0", ".", "0", "0", "2", "3">>, <<"0", ".", "2", "9">>,
     <<"1", ".", "2", "3", "4", "5", "6">>, <<"1", ".", "2", "3", "9">>}

AvgPrices == {<<"1", "0", "0">>, <<"1">>}

(* instrument metadata: lotSizeFilter.basePrecision, priceFilter.tickSize *)
Instruments ==
    {[lotSizeFilter |-> [basePrecision |-> <<"0", ".", "0", "0", "0", "1">>],
      priceFilter |-> [tickSize |-> <<"0", ".", "0", "1">>]],
     [lotSizeFilter |-> [basePrecision |-> <<"0", ".", "0", "1">>],
      priceFilter |-> [tickSize |-> <<"0", ".", "1">>]],
     [lotSizeFilter |-> [basePrecision |-> <<"0", ".", "1">>],
      priceFilter |-> [tickSize |-> <<"1">>]]}

(* exceptions the session raises on a failed request *)
SessionErrors == {"FailedRequestError", "InvalidRequestError"}

WalletResponses(coin) ==
    {[list |-> <<>>]}
    \cup {[list |-> <<[coin |-> <<[availableToWithdraw |-> b]>>]>>] :
            b \in (IF coin = "USDT" THEN UsdtBalances ELSE CoinBalances)
                  \cup {<<>>}}

(* an order that has not filled carries no average price: the list is      *)
(* empty, the field is missing, or it is the empty string                  *)
OrderResponses(order_id) ==
    {[list |-> <<>>], [list |-> <<[orderId |-> order_id]>>]}
    \cup {[list |-> <<[orderId |-> order_id, avgPrice |-> a]>>] :
            a \in AvgPrices \cup {<<>>}}

InstrumentResponses ==
    {[list |-> <<>>]} \cup {[list |-> <<i>>] : i \in Instruments}

OrderIds == <<"order-1", "order-2", "order-3">>

(* a call of the session either raises or returns a response *)
Outcomes(responses) ==
    {[raised |-> TRUE, exc |-> e] : e \in SessionErrors}
    \cup {[raised |-> FALSE, response |-> r] : r \in responses}

(* a variant of ApiCall that wraps the exception in another one *)
ApiCallWrapping(outcome) ==
    IF outcome.raised THEN Raised("Exception") ELSE Ok(outcome.response)

(* the try/except/raise around every session call in ApiClient: the        *)
(* exception is logged and re-raised                                       *)
ApiCall(outcome) ==
    IF outcome.raised THEN Raised(outcome.exc) ELSE Ok(outcome.response)

-----------------------------------------------------------------------------
(* The caller's arguments.                                                 *)

Coins == {"BTC"}

Sides == {Side_BUY, Side_SELL}

Optional(literals) == {None} \cup {PyFloat(ParseFloat(l)) : l \in literals}

PercentsOfBalance == {PyFloat(ParseFloat(l)) : l \in {<<"1", "0">>, <<"7", "0">>}}

TpPercentages == Optional({<<"0">>, <<"1", "0">>})

SlPercentages == Optional({<<"0">>, <<"5">>, <<"1", "0">>, <<"1", "0", "0">>})

-----------------------------------------------------------------------------
VARIABLES
    pc,                  \* where place_market_order_spot_to_usdt stands
    coin, side, percent_of_balance, tp_percentage, sl_percentage,
                         \* its arguments
    usdt_balance, qty_in_usdt,  \* the locals of _calculate_order_qty
    order_qty,           \* qty in _execute_market_order
    order_id, avg_price, qty,   \* the locals of the pipeline
    balance,             \* balance in _get_formatted_balance
    multiplier, target_price,   \* the locals of _calculate_target_price
    sl_price, tp_price,  \* the prices of _set_stop_loss and _set_take_profit
    error,               \* the exception that left the call, or None
    calls,               \* every session call made, with its outcome
    orders,              \* the orders the exchange has accepted
    lookups              \* every precision resolved: field, call, value

args == <<coin, side, percent_of_balance, tp_percentage, sl_percentage>>

quantity == <<usdt_balance, qty_in_usdt, order_qty>>

target == <<multiplier, target_price, sl_price, tp_price>>

locals == <<quantity, order_id, avg_price, qty, balance, target>>

vars == <<pc, args, locals, error, calls, orders, lookups>>

Init ==
    /\ pc = "idle"
    /\ coin = "" /\ side = "" /\ percent_of_balance = None
    /\ tp_percentage = None /\ sl_percentage = None
    /\ usdt_balance = None /\ qty_in_usdt = None /\ order_qty = None
    /\ order_id = None /\ avg_price = None /\ qty = None /\ balance = None
    /\ multiplier = None /\ target_price = None
    /\ sl_price = None /\ tp_price = None
    /\ error = None
    /\ calls = <<>> /\ orders = <<>> /\ lookups = <<>>

(* a session call is made: it is recorded with the step that made it and   *)
(* with its outcome                                                        *)
Session(method, params, outcome) ==
    calls' = Append(calls, [at |-> pc, method |-> method, params |-> params,
                            outcome |-> outcome])

(* an exception leaves place_market_order_spot_to_usdt *)
Raise(exc) == pc' = "failed" /\ error' = exc

(* the step after this one *)
Goto(label) == pc' = label /\ UNCHANGED error

(* place_market_order_spot_to_usdt is called *)
place_market_order_spot_to_usdt ==
    /\ pc = "idle"
    /\ coin' \in Coins
    /\ side' \in Sides
    /\ percent_of_balance' \in PercentsOfBalance
    /\ tp_percentage' \in TpPercentages
    /\ sl_percentage' \in SlPercentages
    /\ pc' = "_calculate_order_qty"
    /\ UNCHANGED <<locals, error, calls, orders, lookups>>

(* _calculate_order_qty once get_balance("USDT") has returned b *)
_calculate_order_qty(b) ==
    /\ usdt_balance' = PyFloat(b)
    /\ qty_in_usdt' = PyFloat(FloatMul(usdt_balance'.float,
                          FloatDivPow10(percent_of_balance.float, 2)))
    /\ order_qty' = PyFloat(PyRound(qty_in_usdt'.float, 0))

(* _calculate_order_qty: get_balance("USDT"), then the quantity *)
CalculateOrderQty ==
    /\ pc = "_calculate_order_qty"
    /\ \E o \in Outcomes(WalletResponses("USDT")) :
        /\ Session("get_wallet_balance",
                   get_wallet_balance(AccountType_UNIFIED, "USDT"), o)
        /\ \E b \in {get_balance(ApiCall(o))} :
            IF ~b.ok THEN Raise(b.exc) /\ UNCHANGED quantity
            ELSE _calculate_order_qty(b.v) /\ Goto("_execute_market_order")
    /\ UNCHANGED <<args, order_id, avg_price, qty, balance, target,
                   orders, lookups>>

(* a variant of Accept that withdraws the earlier orders on a failure *)
AcceptOrWithdraw(payload, r, next) ==
    IF ~r.ok THEN Raise(r.exc) /\ orders' = <<>>
    ELSE orders' = Append(orders, payload) /\ Goto(next)

(* the exchange accepts an order and answers with its id *)
Accept(payload, r, next) ==
    IF ~r.ok THEN Raise(r.exc) /\ UNCHANGED orders
    ELSE orders' = Append(orders, payload) /\ Goto(next)

(* _execute_market_order: place_order, then the order id of the response *)
ExecuteMarketOrder ==
    /\ pc = "_execute_market_order"
    /\ \E o \in Outcomes({[orderId |-> OrderIds[Len(orders) + 1]]}) :
        \E payload \in {place_order(_execute_market_order(
                            Symbol(coin), side, order_qty))} :
            /\ Session("place_order", payload, o)
            /\ Accept(payload, ApiCall(o), "_get_avg_price")
            /\ order_id' = IF o.raised THEN order_id ELSE o.response.orderId
    /\ UNCHANGED <<args, quantity, avg_price, qty, balance, target, lookups>>

(* _get_avg_price: get_order_by_id, then float(avgPrice) *)
GetAvgPrice ==
    /\ pc = "_get_avg_price"
    /\ \E o \in Outcomes(OrderResponses(order_id)) :
        /\ Session("get_open_orders",
                   get_order_by_id(Category_SPOT, order_id), o)
        /\ \E a \in {_get_avg_price(ApiCall(o))} :
            IF ~a.ok THEN Raise(a.exc) /\ UNCHANGED avg_price
            ELSE avg_price' = PyFloat(a.v) /\ Goto("_get_formatted_balance")
    /\ UNCHANGED <<args, quantity, order_id, qty, balance, target,
                   orders, lookups>>

(* _get_formatted_balance, first half: get_balance(coin) *)
GetFormattedBalance ==
    /\ pc = "_get_formatted_balance"
    /\ \E o \in Outcomes(WalletResponses(coin)) :
        /\ Session("get_wallet_balance",
                   get_wallet_balance(AccountType_UNIFIED, coin), o)
        /\ \E b \in {get_balance(ApiCall(o))} :
            IF ~b.ok THEN Raise(b.exc) /\ UNCHANGED balance
            ELSE balance' = PyFloat(b.v) /\ Goto("_get_qty_precision")
    /\ UNCHANGED <<args, quantity, order_id, avg_price, qty, target,
                   orders, lookups>>

(* a variant of AfterQty that tests the percentages against None *)
AfterQtyIfSupplied ==
    IF sl_percentage # None THEN "_set_stop_loss"
    ELSE IF tp_percentage # None THEN "_set_take_profit"
    ELSE "done"

(* where place_market_order_spot_to_usdt goes once qty is known *)
AfterQty ==
    IF Truthy(sl_percentage) THEN "_set_stop_loss"
    ELSE IF Truthy(tp_percentage) THEN "_set_take_profit"
    ELSE "done"

(* where place_market_order_spot_to_usdt goes after _set_stop_loss *)
AfterStopLoss ==
    IF Truthy(tp_percentage) THEN "_set_take_profit" ELSE "done"

(* a precision has been resolved from the instrument metadata *)
Resolved(field, precision) ==
    lookups' = Append(lookups, [field |-> field, call |-> Len(calls) + 1,
                                precision |-> precision])

(* _get_formatted_balance, second half: _get_qty_precision and the         *)
(* rounding of the balance; then the two ifs of the caller                 *)
GetQtyPrecision ==
    /\ pc = "_get_qty_precision"
    /\ \E o \in Outcomes(InstrumentResponses) :
        /\ Session("get_instruments_info",
                   get_instruments_info(Category_SPOT, Symbol(coin)), o)
        /\ \E precision \in {_get_qty_precision(ApiCall(o))} :
            IF ~precision.ok
            THEN Raise(precision.exc) /\ UNCHANGED <<qty, lookups>>
            ELSE /\ qty' = PyFloat(_round_to_precision(balance.float,
                                                       precision.v))
                 /\ Resolved("qty", precision.v)
                 /\ Goto(AfterQty)
    /\ UNCHANGED <<args, quantity, order_id, avg_price, balance, target,
                   orders>>

(* _calculate_target_price once _get_price_precision has returned *)
_calculate_target_price(percentage, is_take_profit, precision) ==
    /\ multiplier' = PyFloat(
           IF is_take_profit
           THEN FloatAdd(FloatOne, FloatDivPow10(percentage.float, 2))
           ELSE FloatSub(FloatOne, FloatDivPow10(percentage.float, 2)))
    /\ target_price' = PyFloat(FloatMul(avg_price.float, multiplier'.float))
    /\ IF is_take_profit
       THEN /\ tp_price' = PyFloat(PyRound(target_price'.float, precision))
            /\ UNCHANGED sl_price
       ELSE /\ sl_price' = PyFloat(PyRound(target_price'.float, precision))
            /\ UNCHANGED tp_price

(* a variant of CalculateTargetPrice that asks the exchange for the        *)
(* average price again and computes the target from the new answer         *)
CalculateTargetPriceRequerying(at, percentage, is_take_profit, next) ==
    /\ pc = at
    /\ \E a \in AvgPrices, o \in Outcomes(InstrumentResponses) :
        /\ calls' = calls \o
              <<[at |-> pc, method |-> "get_open_orders",
                 params |-> get_order_by_id(Category_SPOT, order_id),
                 outcome |-> [raised |-> FALSE, response |->
                     [list |-> <<[orderId |-> order_id, avgPrice |-> a]>>]]],
                [at |-> pc, method |-> "get_instruments_info",
                 params |-> get_instruments_info(Category_SPOT, Symbol(coin)),
                 outcome |-> o]>>
        /\ \E precision \in {_get_price_precision(ApiCall(o))} :
            IF ~precision.ok
            THEN Raise(precision.exc) /\ UNCHANGED <<target, lookups>>
            ELSE /\ multiplier' = PyFloat(
                        IF is_take_profit
                        THEN FloatAdd(FloatOne,
                                      FloatDivPow10(percentage.float, 2))
                        ELSE FloatSub(FloatOne,
                                      FloatDivPow10(percentage.float, 2)))
                 /\ target_price' = PyFloat(FloatMul(ParseFloat(a),
                                                     multiplier'.float))
                 /\ IF is_take_profit
                    THEN /\ tp_price' = PyFloat(PyRound(target_price'.float,
                                                        precision.v))
                         /\ UNCHANGED sl_price
                    ELSE /\ sl_price' = PyFloat(PyRound(target_price'.float,
                                                        precision.v))
                         /\ UNCHANGED tp_price
                 /\ lookups' = Append(lookups,
                        [field |-> "price", call |-> Len(calls) + 2,
                         precision |-> precision.v])
                 /\ Goto(next)
    /\ UNCHANGED <<args, quantity, order_id, avg_price, qty, balance, orders>>

(* _calculate_target_price inside _set_stop_loss or _set_take_profit:      *)
(* _get_price_precision, then the rounded target                           *)
CalculateTargetPrice(at, percentage, is_take_profit, next) ==
    /\ pc = at
    /\ \E o \in Outcomes(InstrumentResponses) :
        /\ Session("get_instruments_info",
                   get_instruments_info(Category_SPOT, Symbol(coin)), o)
        /\ \E precision \in {_get_price_precision(ApiCall(o))} :
            IF ~precision.ok
            THEN Raise(precision.exc) /\ UNCHANGED <<target, lookups>>
            ELSE /\ _calculate_target_price(percentage, is_take_profit,
                                            precision.v)
                 /\ Resolved("price", precision.v)
                 /\ Goto(next)
    /\ UNCHANGED <<args, quantity, order_id, avg_price, qty, balance, orders>>

(* a dependent order is sent with place_order *)
PlaceDependentOrder(at, parameters, next) ==
    /\ pc = at
    /\ \E o \in Outcomes({[orderId |-> OrderIds[Len(orders) + 1]]}) :
        \E payload \in {place_order(parameters)} :
            /\ Session("place_order", payload, o)
            /\ Accept(payload, ApiCall(o), next)
    /\ UNCHANGED <<args, locals, lookups>>

(* _set_stop_loss: the stop-loss price *)
SetStopLoss ==
    CalculateTargetPrice("_set_stop_loss", sl_percentage, FALSE,
                         "_place_stop_loss")

(* _place_stop_loss; then the second if of the caller *)
PlaceStopLoss ==
    PlaceDependentOrder("_place_stop_loss",
        _place_stop_loss(Symbol(coin), qty, sl_price), AfterStopLoss)

(* _set_take_profit: the take-profit price *)
SetTakeProfit ==
    CalculateTargetPrice("_set_take_profit", tp_percentage, TRUE,
                         "_place_limit_order")

(* _place_limit_order *)
PlaceLimitOrder ==
    PlaceDependentOrder("_place_limit_order",
        _place_limit_order(Symbol(coin), qty, tp_price, Side_SELL), "done")

Next ==
    \/ place_market_order_spot_to_usdt
    \/ CalculateOrderQty
    \/ ExecuteMarketOrder
    \/ GetAvgPrice
    \/ GetFormattedBalance
    \/ GetQtyPrecision
    \/ SetStopLoss
    \/ PlaceStopLoss
    \/ SetTakeProfit
    \/ PlaceLimitOrder

Spec == Init /\ [][Next]_vars

Labels ==
    {"idle", "_calculate_order_qty", "_execute_market_order",
     "_get_avg_price", "_get_formatted_balance", "_get_qty_precision",
     "_set_stop_loss", "_place_stop_loss", "_set_take_profit",
     "_place_limit_order", "done", "failed"}

TypeOK ==
    /\ pc \in Labels
    /\ \A v \in {usdt_balance, qty_in_usdt, order_qty, avg_price, qty,
                 balance, multiplier, target_price, sl_price, tp_price} :
          v = None \/ (IsFloat(v) /\ v.float # OutOfRange)

-----------------------------------------------------------------------------
(* The precision helpers on their own: the metadata of one instrument is   *)
(* looked up repeatedly, unchanged between the lookups.                    *)

MaxDecimals == 8
MaxLookups == 3

(* "1", "0.1", "0.01", ...: the step 10^-k as the exchange writes it *)
StepSize(k) ==
    IF k = 0 THEN <<"1">>
    ELSE <<"0", ".">> \o [i \in 1..k |-> IF i = k THEN "1" ELSE "0"]

StepSizes ==
    {StepSize(k) : k \in 0..MaxDecimals}
    \cup {<<"1", "0">>, <<"0", ".", "5">>, <<"0", ".", "0", "2", "5">>}

StepResponses ==
    {[list |-> <<[lotSizeFilter |-> [basePrecision |-> b],
                  priceFilter |-> [tickSize |-> t]]>>] :
        b \in StepSizes, t \in StepSizes}

(* what get_instruments_info answers: anything the first time, the same    *)
(* again afterwards                                                        *)
MetadataOutcomes ==
    IF calls = <<>> THEN Outcomes(StepResponses) ELSE {calls[1].outcome}

(* the resolver of a field *)
Resolver(field, r) ==
    IF field = "qty" THEN _get_qty_precision(r) ELSE _get_price_precision(r)

(* one lookup of the precision of a field *)
LookupPrecision(field) ==
    /\ pc = "idle"
    /\ Len(lookups) < MaxLookups
    /\ \E o \in MetadataOutcomes :
        /\ ~o.raised
        /\ Session("get_instruments_info",
                   get_instruments_info(Category_SPOT, Symbol("BTC")), o)
        /\ Resolved(field, Resolver(field, ApiCall(o)).v)
    /\ UNCHANGED <<pc, args, locals, error, orders>>

LookupQtyPrecision == LookupPrecision("qty")

LookupPricePrecision == LookupPrecision("price")

NextPrecision == LookupQtyPrecision \/ LookupPricePrecision

SpecPrecision == Init /\ [][NextPrecision]_vars

-----------------------------------------------------------------------------
(* ApiClient.place_order on its own: called with any few of its optional   *)
(* parameters supplied, the others left at None.                           *)

MaxSupplied == 3

PyBool(b) == [bool |-> b]

(* a member of an Enum: always true, sent by its value *)
Member(name, value) == [enum |-> name, value |-> value]

TriggerDirection_RISES_TO == Member("TriggerDirection.RISES_TO", PyInt(1))
TriggerDirection_FALLS_TO == Member("TriggerDirection.FALLS_TO", PyInt(2))
TriggerBy_LAST_PRICE == Member("TriggerBy.LAST_PRICE", PyStr("LastPrice"))
TriggerBy_MARK_PRICE == Member("TriggerBy.MARK_PRICE", PyStr("MarkPrice"))
TP_SL_Mode_FULL == Member("TP_SL_Mode.FULL", PyStr("Full"))
TP_SL_Mode_PARTIAL == Member("TP_SL_Mode.PARTIAL", PyStr("Partial"))
TP_SL_OrderType_MARKET == Member("TP_SL_OrderType.MARKET", PyStr("Market"))
TP_SL_OrderType_LIMIT == Member("TP_SL_OrderType.LIMIT", PyStr("Limit"))

(* two values a caller may supply for each parameter whose default is None *)
SuppliedValues ==
    [price |-> <<PyStr("100.5"), PyFloat(FloatZero)>>,
     order_link_id |-> <<PyStr("link-1"), PyStr("")>>,
     market_unit |-> <<PyStr("quoteCoin"), PyStr("")>>,
     trigger_price |-> <<PyFloat(FloatOne), PyFloat(FloatZero)>>,
     trigger_direction |-> <<TriggerDirection_RISES_TO,
                             TriggerDirection_FALLS_TO>>,
     trigger_by |-> <<TriggerBy_LAST_PRICE, TriggerBy_MARK_PRICE>>,
     take_profit |-> <<PyStr("110"), PyStr("")>>,
     stop_loss |-> <<PyStr("90"), PyStr("")>>,
     tp_trigger_by |-> <<TriggerBy_LAST_PRICE, TriggerBy_MARK_PRICE>>,
     sl_trigger_by |-> <<TriggerBy_LAST_PRICE, TriggerBy_MARK_PRICE>>,
     reduce_only |-> <<PyBool(TRUE), PyBool(FALSE)>>,
     close_on_trigger |-> <<PyBool(TRUE), PyBool(FALSE)>>,
     tp_sl_mode |-> <<TP_SL_Mode_FULL, TP_SL_Mode_PARTIAL>>,
     tp_limit_price |-> <<PyStr("111"), PyStr("")>>,
     sl_limit_price |-> <<PyStr("89"), PyStr("")>>,
     tp_order_type |-> <<TP_SL_OrderType_MARKET, TP_SL_OrderType_LIMIT>>,
     sl_order_type |-> <<TP_SL_OrderType_MARKET, TP_SL_OrderType_LIMIT>>]

(* the parameters of place_order whose default is None *)
NoneByDefault == DOMAIN SuppliedValues

(* the key of order_data each of them is sent under *)
PayloadKey ==
    [price |-> "price", order_link_id |-> "orderLinkId",
     market_unit |-> "marketUnit", trigger_price |-> "triggerPrice",
     trigger_direction |-> "triggerDirection", trigger_by |-> "triggerBy",
     take_profit |-> "takeProfit", stop_loss |-> "stopLoss",
     tp_trigger_by |-> "tpTriggerBy", sl_trigger_by |-> "slTriggerBy",
     reduce_only |-> "reduceOnly", close_on_trigger |-> "closeOnTrigger",
     tp_sl_mode |-> "tpslMode", tp_limit_price |-> "tpLimitPrice",
     sl_limit_price |-> "slLimitPrice", tp_order_type |-> "tpOrderType",
     sl_order_type |-> "slOrderType"]

(* the arguments of a call that supplies the parameters in supplied, each  *)
(* with the value chosen by choice                                         *)
Arguments(supplied, choice, side_, order_type) ==
    [k \in DOMAIN PlaceOrderDefaults |->
        IF k \in supplied THEN SuppliedValues[k][choice[k]]
        ELSE PlaceOrderDefaults[k]]
    @@ [category |-> Category_SPOT, symbol |-> Symbol("BTC"), side |-> side_,
        order_type |-> order_type, qty |-> PyStr("0.01")]

(* one call of ApiClient.place_order *)
CallPlaceOrder ==
    /\ pc = "idle"
    /\ \E supplied \in SUBSET NoneByDefault :
        /\ Cardinality(supplied) <= MaxSupplied
        /\ \E choice \in [supplied -> 1..2], order_type \in
                {OrderType_MARKET, OrderType_LIMIT} :
            \E a \in {Arguments(supplied, choice, Side_SELL, order_type)},
               o \in Outcomes({[orderId |-> OrderIds[1]]}) :
                /\ calls' = Append(calls,
                       [at |-> pc, method |-> "place_order",
                        params |-> place_order(a), outcome |-> o,
                        arguments |-> a])
                /\ Accept(place_order(a), ApiCall(o), "done")
    /\ UNCHANGED <<args, locals, lookups>>

NextPlaceOrder == CallPlaceOrder

SpecPlaceOrder == Init /\ [][NextPlaceOrder]_vars

-----------------------------------------------------------------------------
(* Reading the history of a run.                                           *)

(* the session calls made by the step at a label *)
CallsAt(label) == {i \in 1..Len(calls) : calls[i].at = label}

(* the take-profit and stop-loss submissions *)
DependentOrderCalls ==
    CallsAt("_place_stop_loss") \cup CallsAt("_place_limit_order")

SlSubmitted == CallsAt("_place_stop_loss") # {}

TpSubmitted == CallsAt("_place_limit_order") # {}

Finished == pc \in {"done", "failed"}

(* the availableToWithdraw string of the wallet response to call i *)
BalanceString(i) ==
    calls[i].outcome.response.list[1].coin[1].availableToWithdraw

(* an order response that carries no average price *)
NoAveragePrice(response) ==
    \/ response.list = <<>>
    \/ "avgPrice" \notin DOMAIN response.list[1]
    \/ response.list[1].avgPrice = <<>>

(* the order queried after the market order carried no average price *)
QueriedUnfilled ==
    \E i \in CallsAt("_get_avg_price") :
        ~calls[i].outcome.raised /\ NoAveragePrice(calls[i].outcome.response)

(* the exception Python raises on such a response *)
UnfilledError(response) ==
    IF response.list = <<>> THEN "IndexError"
    ELSE IF "avgPrice" \notin DOMAIN response.list[1] THEN "KeyError"
    ELSE "ValueError"

-----------------------------------------------------------------------------
(* C1, as the specification states it: when the order queried after the    *)
(* market order carries no average fill price, the run fails with an       *)
(* OrderNotFilled error and submits no take-profit and no stop-loss order. *)
C1_FailsWithOrderNotFilled ==
    QueriedUnfilled =>
        /\ pc = "failed"
        /\ error = "OrderNotFilled"
        /\ DependentOrderCalls = {}

(* C1, amended: when the order queried after the market order carries no   *)
(* average fill price, the run fails at that query with the exception of   *)
(* the failed read (IndexError for an empty result list, KeyError for a    *)
(* missing avgPrice field, ValueError for an empty avgPrice string), and   *)
(* no take-profit and no stop-loss order is submitted, whatever tp and sl  *)
(* percentages were supplied.                                              *)
C1_UnfilledOrderStopsRun ==
    QueriedUnfilled =>
        /\ pc = "failed"
        /\ error = UnfilledError(calls[Len(calls)].outcome.response)
        /\ calls[Len(calls)].at = "_get_avg_price"
        /\ DependentOrderCalls = {}
        /\ Len(orders) = 1

(* an unfilled order was met in a run that asked for both legs *)
C1_Witness ==
    /\ QueriedUnfilled
    /\ Truthy(tp_percentage) /\ Truthy(sl_percentage)
    /\ error = "ValueError"

-----------------------------------------------------------------------------
(* C2: the gateway calls of a run come in the order USDT balance, market   *)
(* order in quote currency (marketUnit = quoteCoin) with the quantity      *)
(* derived from that balance, average price of that order, base-coin       *)
(* balance; the base-coin balance is read after the market order has       *)
(* returned, and the quantity of every take-profit and stop-loss order is  *)
(* the one computed from that balance, not taken from the order response.  *)
C2_TwoPhaseQuantityFlow ==
    /\ Len(calls) >= 1 =>
        /\ calls[1].method = "get_wallet_balance"
        /\ calls[1].params.coin = PyStr("USDT")
    /\ Len(calls) >= 2 =>
        /\ ~calls[1].outcome.raised
        /\ calls[2].method = "place_order"
        /\ "marketUnit" \in DOMAIN calls[2].params
        /\ calls[2].params.marketUnit = PyStr("quoteCoin")
        /\ calls[2].params.orderType = PyStr(OrderType_MARKET)
        /\ calls[2].params.qty =
              PyFloat(PyRound(FloatMul(ParseFloat(BalanceString(1)),
                         FloatDivPow10(percent_of_balance.float, 2)), 0))
    /\ Len(calls) >= 3 =>
        /\ ~calls[2].outcome.raised
        /\ calls[3].method = "get_open_orders"
        /\ calls[3].params.orderId = PyStr(calls[2].outcome.response.orderId)
    /\ Len(calls) >= 4 =>
        /\ calls[4].method = "get_wallet_balance"
        /\ calls[4].params.coin = PyStr(coin)
    /\ \A i \in DependentOrderCalls :
        /\ i > 5
        /\ calls[5].method = "get_instruments_info"
        /\ calls[i].params.qty =
              PyFloat(_round_to_precision(ParseFloat(BalanceString(4)),
                  _count_decimal_places(calls[5].outcome.response.list[1]
                                            .lotSizeFilter.basePrecision)))

(* a run that placed the market order and both legs *)
C2_Witness == pc = "done" /\ Len(orders) = 3 /\ Len(calls) = 9

-----------------------------------------------------------------------------
-----------------------------------------------------------------------------
(* C4: every stop-loss order that reaches the gateway is a conditional     *)
(* order: side Sell, orderType Market, orderFilter StopOrder and a         *)
(* triggerPrice equal to the computed stop-loss price, also when that      *)
(* price is 0.                                                             *)
C4_StopLossIsConditional ==
    \A i \in CallsAt("_place_stop_loss") :
        /\ calls[i].params.side = PyStr(Side_SELL)
        /\ calls[i].params.orderType = PyStr(OrderType_MARKET)
        /\ calls[i].params.orderFilter = PyStr(OrderFilter_STOP_ORDER)
        /\ "triggerPrice" \in DOMAIN calls[i].params
        /\ calls[i].params.triggerPrice = sl_price

-----------------------------------------------------------------------------
(* C5: no retry.  The market order and each leg are submitted at most once *)
(* in a run; when a gateway call raises, it is the last call of the run    *)
(* and its exception is what the caller receives.                          *)
C5_NoRetry ==
    /\ \A label \in {"_execute_market_order", "_place_stop_loss",
                     "_place_limit_order"} :
          Cardinality(CallsAt(label)) <= 1
    /\ \A i \in 1..Len(calls) :
          (calls[i].method = "place_order") =>
              calls[i].at \in {"_execute_market_order", "_place_stop_loss",
                               "_place_limit_order"}
    /\ \A i \in 1..Len(calls) :
          calls[i].outcome.raised =>
              /\ i = Len(calls)
              /\ pc = "failed"
              /\ error = calls[i].outcome.exc

(* the stop-loss submission raised after five calls that returned *)
C5_Witness ==
    /\ pc = "failed" /\ error = "InvalidRequestError"
    /\ Len(calls) = 7 /\ calls[7].outcome.raised
    /\ calls[7].at = "_place_stop_loss"

-----------------------------------------------------------------------------
(* the submissions the gateway accepted *)
IsAccepted(call) == call.method = "place_order" /\ ~call.outcome.raised

AcceptedOrders ==
    [k \in 1..Len(SelectSeq(calls, IsAccepted)) |->
        SelectSeq(calls, IsAccepted)[k].params]

(* C6: no compensation.  Once the market order has returned an order id,   *)
(* every order submitted stays on the exchange whatever fails later, and   *)
(* the run makes no gateway call other than its reads and submissions: no  *)
(* cancel, no reversal.                                                    *)
C6_NoCompensation ==
    (\E i \in CallsAt("_execute_market_order") : IsAccepted(calls[i])) =>
        /\ orders = AcceptedOrders
        /\ \A i \in 1..Len(calls) :
              calls[i].method \in {"get_wallet_balance", "place_order",
                                   "get_open_orders", "get_instruments_info"}
        /\ pc = "failed" =>
              \A i \in 1..Len(calls) :
                  IsAccepted(calls[i]) => i < Len(calls)

(* the take-profit price lookup failed after the stop-loss order was       *)
(* accepted                                                                *)
C6_Witness ==
    /\ pc = "failed" /\ error = "IndexError"
    /\ Len(orders) = 2
    /\ calls[Len(calls)].at = "_set_take_profit"

-----------------------------------------------------------------------------
(* Reference values, computed on the decimal strings and on exact          *)
(* naturals rather than through the float operations of the code.          *)

(* the decimal literal s cut after p decimals *)
Truncated(s, p) ==
    IF Find(s, ".") = 0 THEN s
    ELSE IF p = 0 THEN SubSeq(s, 1, Find(s, ".") - 1)
    ELSE SubSeq(s, 1, IF Find(s, ".") + p < Len(s) THEN Find(s, ".") + p
                      ELSE Len(s))

(* the number of characters after the decimal point of s *)
CharsAfterPoint(s) == IF Find(s, ".") = 0 THEN 0 ELSE Len(s) - Find(s, ".")

(* the integers nearest to n / (100 * 2^(2 * FracBits)), n the exact       *)
(* product of two floats: the one round-half-up gives and, on a tie, the   *)
(* one round-half-even gives                                               *)
NearestToHundredth(n) ==
    LET r == ShiftRight(BigAdd(n, ShiftLeft(NatToBig(50), 2 * FracBits)),
                        2 * FracBits)
        d == DivModSmall(r.q, 100)
    IN  {d.q} \cup (IF ~r.inexact /\ d.r = 0 /\ IsOdd(d.q)
                    THEN {BigSub(d.q, NatToBig(1))} ELSE {})

Hundred == IntToFloat(NatToBig(100))

(* the precision resolved by the step at a label *)
PrecisionAt(label) ==
    (CHOOSE i \in 1..Len(lookups) : calls[lookups[i].call].at = label)

(* avg * (100 + pct) / 100 or avg * (100 - pct) / 100, to p decimals *)
ExactTargets(avg, pct, is_take_profit, p) ==
    {IntDivPow10(k, p) :
        k \in NearestToHundredth(MulPow10(
                 BigMul(avg, IF is_take_profit THEN BigAdd(Hundred, pct)
                             ELSE BigSub(Hundred, pct)), p))}

-----------------------------------------------------------------------------
(* C7: the quantity of the take-profit and stop-loss orders is the         *)
(* base-coin balance read after the trade, cut (not rounded to nearest)    *)
(* to the resolved quantity precision; it never exceeds the balance read   *)
(* and is the same on both orders.                                         *)
C7_QuantityIsTruncatedBalance ==
    qty # None =>
        /\ qty.float = ParseFloat(Truncated(BalanceString(4),
                                            lookups[1].precision))
        /\ BigCmp(qty.float, balance.float) <= 0
        /\ \A i \in DependentOrderCalls : calls[i].params.qty = qty

-----------------------------------------------------------------------------
(* C8: the quantity of the market order is B * P / 100 rounded to zero     *)
(* decimals (half-even or half-up), for the USDT balance B and the         *)
(* percentage P; it is never negative and never more than one above B.     *)
C8_OrderQtyIsRoundedShare ==
    order_qty # None =>
        /\ order_qty.float \in
              {IntToFloat(k) : k \in NearestToHundredth(
                  BigMul(usdt_balance.float, percent_of_balance.float))}
        /\ BigCmp(order_qty.float,
                  FloatAdd(usdt_balance.float, FloatOne)) <= 0

-----------------------------------------------------------------------------
(* C9: the stop-loss trigger price is avg_price * (1 - pct / 100) and the  *)
(* take-profit price avg_price * (1 + pct / 100), each rounded (half-even  *)
(* or half-up) to the price precision resolved from the tick size.         *)
C9_TargetsRoundedToTick ==
    /\ sl_price # None =>
          sl_price.float \in
              ExactTargets(avg_price.float, sl_percentage.float, FALSE,
                           lookups[PrecisionAt("_set_stop_loss")].precision)
    /\ tp_price # None =>
          tp_price.float \in
              ExactTargets(avg_price.float, tp_percentage.float, TRUE,
                           lookups[PrecisionAt("_set_take_profit")].precision)

-----------------------------------------------------------------------------
(* the step size string a lookup has read *)
StepRead(l) ==
    IF l.field = "qty"
    THEN calls[l.call].outcome.response.list[1].lotSizeFilter.basePrecision
    ELSE calls[l.call].outcome.response.list[1].priceFilter.tickSize

(* C10: the precision resolved from a step size string is the number of    *)
(* characters after its decimal point, 0 without a decimal point ("0.0001" *)
(* gives 4, "0.1" gives 1, "1" gives 0); the quantity precision comes from *)
(* the lot size field and the price precision from the tick size field;    *)
(* repeating a lookup against unchanged metadata gives the same value.     *)
C10_PrecisionFromStepSize ==
    /\ \A i \in 1..Len(lookups) :
          lookups[i].precision = CharsAfterPoint(StepRead(lookups[i]))
    /\ \A i, j \in 1..Len(lookups) :
          (/\ lookups[i].field = lookups[j].field
           /\ calls[lookups[i].call].outcome = calls[lookups[j].call].outcome)
          => lookups[i].precision = lookups[j].precision
    /\ _count_decimal_places(<<"0", ".", "0", "0", "0", "1">>) = 4
    /\ _count_decimal_places(<<"0", ".", "1">>) = 1
    /\ _count_decimal_places(<<"1">>) = 0

(* the price precision was looked up twice and the quantity precision      *)
(* once, against metadata whose two step sizes differ                      *)
C10_Witness ==
    /\ Len(lookups) = 3
    /\ lookups[1].field = "price" /\ lookups[2].field = "qty"
    /\ lookups[3].field = "price"
    /\ lookups[1].precision = 0 /\ lookups[2].precision = 8
    /\ lookups[3].precision = 0

-----------------------------------------------------------------------------
(* the instrument lookup of call i returned no matching symbol *)
NoMatch(i) ==
    /\ calls[i].method = "get_instruments_info"
    /\ ~calls[i].outcome.raised
    /\ calls[i].outcome.response.list = <<>>

(* C11, as the specification states it: when the instrument lookup returns *)
(* no matching symbol, the run fails with a MetadataUnavailable error; a   *)
(* failed quantity precision lookup leaves no take-profit and no stop-loss *)
(* order submitted, a failed price precision lookup leaves its leg         *)
(* unsubmitted.                                                            *)
C11_FailsWithMetadataUnavailable ==
    \A i \in 1..Len(calls) :
        NoMatch(i) =>
            /\ pc = "failed"
            /\ error = "MetadataUnavailable"
            /\ calls[i].at = "_get_qty_precision" => DependentOrderCalls = {}
            /\ calls[i].at = "_set_stop_loss" => ~SlSubmitted
            /\ calls[i].at = "_set_take_profit" => ~TpSubmitted

(* C11, amended: when the instrument lookup returns no matching symbol,    *)
(* the precision resolver fails with IndexError, which ends the run at     *)
(* that lookup; a failed quantity precision lookup leaves the quantity     *)
(* unknown and no take-profit and no stop-loss order submitted, a failed   *)
(* price precision lookup leaves its price unknown and its leg, and any    *)
(* leg after it, unsubmitted.                                              *)
C11_NoMatchAbortsDependents ==
    \A i \in 1..Len(calls) :
        NoMatch(i) =>
            /\ pc = "failed"
            /\ error = "IndexError"
            /\ i = Len(calls)
            /\ calls[i].at = "_get_qty_precision" =>
                  qty = None /\ DependentOrderCalls = {}
            /\ calls[i].at = "_set_stop_loss" =>
                  sl_price = None /\ DependentOrderCalls = {}
            /\ calls[i].at = "_set_take_profit" =>
                  tp_price = None /\ ~TpSubmitted

(* the quantity precision lookup found no symbol in a run that asked for   *)
(* both legs                                                               *)
C11_Witness ==
    /\ Len(calls) = 5 /\ NoMatch(5)
    /\ calls[5].at = "_get_qty_precision"
    /\ Truthy(tp_percentage) /\ Truthy(sl_percentage)

-----------------------------------------------------------------------------
(* the queries of the average price *)
AvgPriceQueries ==
    {i \in 1..Len(calls) : calls[i].method = "get_open_orders"}

(* the average price the one query of the run returned *)
CapturedAvgPrice == ParseFloat(calls[3].outcome.response.list[1].avgPrice)

(* the target computed from the captured average price *)
TargetFromCaptured(percentage, is_take_profit, precision) ==
    PyFloat(PyRound(
        FloatMul(CapturedAvgPrice,
                 IF is_take_profit
                 THEN FloatAdd(FloatOne, FloatDivPow10(percentage.float, 2))
                 ELSE FloatSub(FloatOne, FloatDivPow10(percentage.float, 2))),
        precision))

(* C12: the average fill price is queried once in a run, never again, for  *)
(* the order id the market order of the run returned; the take-profit and  *)
(* the stop-loss price are both computed from the value that one query     *)
(* returned, and the submitted legs carry those prices.                    *)
C12_SingleCapturedAvgPrice ==
    /\ AvgPriceQueries \subseteq {3}
    /\ Len(calls) >= 3 =>
          /\ AvgPriceQueries = {3}
          /\ calls[3].at = "_get_avg_price"
          /\ ~calls[2].outcome.raised
          /\ calls[3].params.orderId = PyStr(calls[2].outcome.response.orderId)
    /\ avg_price # None => avg_price = PyFloat(CapturedAvgPrice)
    /\ sl_price # None =>
          sl_price = TargetFromCaptured(sl_percentage, FALSE,
                        lookups[PrecisionAt("_set_stop_loss")].precision)
    /\ tp_price # None =>
          tp_price = TargetFromCaptured(tp_percentage, TRUE,
                        lookups[PrecisionAt("_set_take_profit")].precision)
    /\ \A i \in CallsAt("_place_limit_order") :
          calls[i].params.price = tp_price
    /\ \A i \in CallsAt("_place_stop_loss") :
          "triggerPrice" \in DOMAIN calls[i].params
              => calls[i].params.triggerPrice = sl_price

(* both legs were submitted, at different prices, after one price query *)
C12_Witness ==
    /\ pc = "done" /\ SlSubmitted /\ TpSubmitted
    /\ Cardinality(AvgPriceQueries) = 1
    /\ avg_price = PyFloat(Hundred)
    /\ sl_price = PyFloat(IntToFloat(NatToBig(90)))
    /\ tp_price = PyFloat(IntToFloat(NatToBig(110)))

-----------------------------------------------------------------------------
(* C13: in the payload of every call of ApiClient.place_order, a parameter *)
(* left at None has no key, and no key carries None: absent fields are     *)
(* omitted, not sent as nulls.                                             *)
C13_AbsentFieldsOmitted ==
    \A i \in 1..Len(calls) :
        calls[i].method = "place_order" =>
            /\ \A k \in NoneByDefault :
                  calls[i].arguments[k] = None =>
                      PayloadKey[k] \notin DOMAIN calls[i].params
            /\ \A key \in DOMAIN calls[i].params :
                  calls[i].params[key] # None

(* a call that supplied a price of 0.0, reduce_only = False and a trigger  *)
(* direction: the three are sent, the fourteen others are not              *)
C13_Witness ==
    /\ Len(calls) = 1
    /\ calls[1].arguments.price = PyFloat(FloatZero)
    /\ calls[1].arguments.reduce_only = PyBool(FALSE)
    /\ calls[1].arguments.trigger_direction = TriggerDirection_RISES_TO
    /\ calls[1].params.price = PyFloat(FloatZero)
    /\ calls[1].params.reduceOnly = PyBool(FALSE)
    /\ calls[1].params.triggerDirection = PyInt(1)
    /\ Cardinality(DOMAIN calls[1].params) = 11

====
